---- MODULE Spec2Model ----
(***************************************************************************)
(* Newsroom (Capstone_Level3): the article approval workflow, the          *)
(* authorization gates of the REST API and of the server-rendered views,   *)
(* and the notification fan-out of newsroom/signals.py.                    *)
(*                                                                         *)
(* A request is carried by a worker slot.  A slot walks through the steps  *)
(* of the handler it runs: the view (permission check, get_object, field   *)
(* assignment), Article.save (full_clean and the pre_save receiver, which  *)
(* both read the store), the row write, and the post_save receiver.  With  *)
(* one slot the requests are served one after the other (Spec); with two   *)
(* slots the steps of two requests interleave (ConcSpec).                  *)
(***************************************************************************)
EXTENDS Integers, Sequences, FiniteSets, TLC

\* ------------------------------------------------------------------ bounds
MaxArticles == 1        \* primary keys the store hands out
MaxClock == 2           \* readings of timezone.now(): 1 .. MaxClock
MaxFanouts == 2         \* no save of an article starts past this many fan-outs

\* ------------------------------------------------------------- vocabulary
Roles == {"READER", "EDITOR", "JOURNALIST"}
Statuses == {"DRAFT", "PENDING", "APPROVED", "REJECTED"}
APPROVED == "APPROVED"
PENDING == "PENDING"

Users == {"jo", "jay", "ed", "rea", "ron", "adm"}
UserSeq == <<"adm", "ed", "jay", "jo", "rea", "ron">>
Anonymous == "anon"
Actors == Users \cup {Anonymous}
Publishers == {"SCOOP", "PLANET"}
Slots == {1, 2}
Pks == 1 .. MaxArticles
\* The Article table holds one row more than the requests of a run create: the
\* row of an article that is in the store before the run begins.
SeedPk == MaxArticles + 1
Stored == Pks \cup {SeedPk}
None == 0               \* a null approved_at, an unsaved instance's pk
NULL == "NULL"          \* the empty side of a LEFT OUTER JOIN row

\* auth_user.email: not unique, may be blank (createsuperuser, create_user).
email == [u \in Users |->
            CASE u = "jo" -> "jo@x"
              [] u = "jay" -> ""
              [] u = "ed" -> "ed@x"
              [] u = "rea" -> "rea@x"
              [] u = "ron" -> "jo@x"
              [] OTHER -> ""]

is_staff == [u \in Users |-> u = "adm"]
is_superuser == [u \in Users |-> u = "adm"]

VARIABLES
    role,          \* User.role
    groups,        \* User.groups (names)
    subsP,         \* User.subscriptions_to_publishers
    subsJ,         \* User.subscriptions_to_journalists
    profiles,      \* per user: the number of JournalistProfile rows
    live,          \* primary keys of the Article rows in the store
    rows,          \* Article rows by primary key
    nextPk,        \* the next primary key of the Article table
    clock,         \* the next reading of timezone.now()
    pc,            \* per slot: the step the request is at
    req,           \* per slot: the request being served
    inst,          \* per slot: the in-memory Article instance
    resp,          \* per slot: the outcome of the last request
    fanouts,       \* per article: fan-outs on_article_approved has run
    transitions    \* per article: row writes that took the status into APPROVED

userVars == <<role, groups, subsP, subsJ, profiles>>
storeVars == <<live, rows, nextPk>>
slotVars == <<pc, req, inst, resp>>
mailVars == <<fanouts, transitions>>
vars == <<role, groups, subsP, subsJ, profiles, live, rows, nextPk, clock,
          pc, req, inst, resp, fanouts, transitions>>

\* ---------------------------------------------------------------- helpers
Range(f) == {f[i] : i \in DOMAIN f}

NoRow == [author |-> "jo", publisher |-> "SCOOP", status |-> "DRAFT",
          approved_at |-> None]
NoInst == [pk |-> None, author |-> "jo", publisher |-> "SCOOP",
           status |-> "DRAFT", approved_at |-> None]
NoReq == [op |-> "none", actor |-> Anonymous, pk |-> None,
          update_fields |-> FALSE, just_approved |-> FALSE,
          auto_now |-> FALSE, todo |-> <<>>, new_role |-> "READER",
          groups_before |-> {}, changed |-> FALSE, notified |-> FALSE]
\* What stays known of a request once it is over: the operation, the actor and
\* the article it addressed.
Request(op, u, a) == [NoReq EXCEPT !.op = op, !.actor = u, !.pk = a]
NoMail == <<"none", "none">>
\* The outcome of a request: what the view answers, the approved_at it reports,
\* the messages the request handed to the mail transport and what the transport
\* did with the subscriber dispatch and with the author dispatch.
Outcome(kind, at, mail, sent) ==
    [status |-> kind, approved_at |-> at, mail |-> mail, sent |-> sent,
     listed |-> {}, page |-> <<>>]
Resp(kind, at, mail) == Outcome(kind, at, mail, <<>>)
\* The answer of a read: the primary keys of the articles it returns.
Listing(pks) == [Resp("ok", None, NoMail) EXCEPT !.listed = pks]
\* The answer of a read that returns a serialized list, row by row.
Page(q) == [Resp("ok", None, NoMail) EXCEPT !.listed = Range(q), !.page = q]

Load(pk) == [pk |-> pk, author |-> rows[pk].author,
             publisher |-> rows[pk].publisher, status |-> rows[pk].status,
             approved_at |-> rows[pk].approved_at]

\* User.is_reader / is_editor / is_journalist
is_reader(u) == role[u] = "READER"
is_editor(u) == role[u] = "EDITOR"
is_journalist(u) == role[u] = "JOURNALIST"

\* permissions._is_auth, _is_admin
IsAuth(u) == u \in Users
IsAdmin(u) == u \in Users /\ (is_staff[u] \/ is_superuser[u])

\* permissions.IsEditor.has_permission, IsJournalist.has_permission
IsEditor(u) == IsAuth(u) /\ (is_editor(u) \/ IsAdmin(u))
IsJournalist(u) == IsAuth(u) /\ (is_journalist(u) \/ IsAdmin(u))

\* Mutant: bootstrap_roles hands can_approve to the Journalist group as well.
GroupPermsJournalistApproves(g) ==
    CASE g = "Reader" -> {"view_article"}
      [] g = "Editor" -> {"view_article", "change_article", "delete_article",
                          "can_approve"}
      [] g = "Journalist" -> {"view_article", "add_article", "change_article",
                              "delete_article", "can_approve"}
      [] OTHER -> {}

\* Mutant: bootstrap_roles hands add_article to the Editor group as well.
GroupPermsEditorAdds(g) ==
    CASE g = "Reader" -> {"view_article"}
      [] g = "Editor" -> {"view_article", "add_article", "change_article",
                          "delete_article", "can_approve"}
      [] g = "Journalist" -> {"view_article", "add_article", "change_article",
                              "delete_article"}
      [] OTHER -> {}

\* The permissions bootstrap_roles gives each role group.
GroupPerms(g) ==
    CASE g = "Reader" -> {"view_article"}
      [] g = "Editor" -> {"view_article", "change_article", "delete_article",
                          "can_approve"}
      [] g = "Journalist" -> {"view_article", "add_article", "change_article",
                              "delete_article"}
      [] OTHER -> {}

\* django.contrib.auth has_perm: a superuser has every permission, any other
\* user those of the groups the user is in.
has_perm(u, perm) ==
    /\ u \in Users
    /\ \/ is_superuser[u]
       \/ \E g \in groups[u] : perm \in GroupPerms(g)

\* User.save's role_to_group
role_to_group(r) ==
    CASE r = "READER" -> "Reader"
      [] r = "EDITOR" -> "Editor"
      [] r = "JOURNALIST" -> "Journalist"

\* Mutant: the journalist branch without its filter.
get_queryset_unfiltered(u) ==
    IF ~IsAuth(u) THEN {a \in live : rows[a].status = APPROVED}
    ELSE IF is_superuser[u] \/ is_staff[u] THEN live
    ELSE IF is_editor(u) \/ is_journalist(u) THEN live
    ELSE {a \in live : rows[a].status = APPROVED}

\* ArticleViewSet.get_queryset: the primary keys the actor may address.
get_queryset(u) ==
    IF ~IsAuth(u) THEN {a \in live : rows[a].status = APPROVED}
    ELSE IF is_superuser[u] \/ is_staff[u] THEN live
    ELSE IF is_editor(u) THEN live
    ELSE IF is_journalist(u)
         THEN {a \in live : rows[a].author = u \/ rows[a].status = APPROVED}
    ELSE {a \in live : rows[a].status = APPROVED}

Init ==
    /\ role = [u \in Users |->
                 CASE u \in {"jo", "jay"} -> "JOURNALIST"
                   [] u = "ed" -> "EDITOR"
                   [] OTHER -> "READER"]
    /\ groups = [u \in Users |->
                 CASE u \in {"jo", "jay"} -> {"Journalist"}
                   [] u = "ed" -> {"Editor"}
                   [] OTHER -> {"Reader"}]
    /\ subsP = [u \in Users |->
                 CASE u = "rea" -> {"SCOOP"}
                   [] u = "ron" -> {"PLANET"}
                   [] u = "adm" -> {"SCOOP"}
                   [] OTHER -> {}]
    /\ subsJ = [u \in Users |->
                 CASE u = "rea" -> {"jo"}
                   [] OTHER -> {}]
    /\ profiles = [u \in Users |-> IF u \in {"jo", "jay"} THEN 1 ELSE 0]
    /\ live = {}
    /\ rows = [a \in Stored |-> NoRow]
    /\ nextPk = 1
    /\ clock = 1
    /\ pc = [s \in Slots |-> "idle"]
    /\ req = [s \in Slots |-> NoReq]
    /\ inst = [s \in Slots |-> NoInst]
    /\ resp = [s \in Slots |-> Resp("none", None, NoMail)]
    /\ fanouts = [a \in Stored |-> 0]
    /\ transitions = [a \in Stored |-> 0]

\* ------------------------------------------------------- notification fan-out
\* The rows of User LEFT OUTER JOIN subscriptions_to_publishers LEFT OUTER JOIN
\* subscriptions_to_journalists for one user.
JoinRows(u) ==
    (IF subsP[u] = {} THEN {NULL} ELSE subsP[u])
        \X (IF subsJ[u] = {} THEN {NULL} ELSE subsJ[u])

\* The rows of that join the WHERE clause keeps:
\* role = READER AND (publisher = article.publisher OR journalist = article.author)
MatchingRows(u, art) ==
    IF role[u] = "READER"
    THEN {r \in JoinRows(u) : r[1] = art.publisher \/ r[2] = art.author}
    ELSE {}

Repeat(x, n) == [i \in 1 .. n |-> x]

\* The email column of the selected rows, row by row.
RECURSIVE EmailColumn(_, _)
EmailColumn(us, art) ==
    IF us = <<>> THEN <<>>
    ELSE Repeat(email[Head(us)], Cardinality(MatchingRows(Head(us), art)))
             \o EmailColumn(Tail(us), art)

\* Mutant: the query without .distinct().
NotDistinct(q) == q

\* SELECT DISTINCT: every value once.
RECURSIVE Distinct(_)
Distinct(q) ==
    IF q = <<>> THEN <<>>
    ELSE LET front == Distinct(SubSeq(q, 1, Len(q) - 1))
             last == q[Len(q)]
         IN IF last \in Range(front) THEN front ELSE Append(front, last)

NonEmpty(e) == e # ""

\* signals._subscriber_emails
subscriber_emails(art) ==
    SelectSeq(Distinct(EmailColumn(UserSeq, art)), NonEmpty)

\* on_article_approved: the datatuple of the subscriber dispatch.
SubscriberMessages(recipients) ==
    [i \in 1 .. Len(recipients) |-> <<"subscriber", recipients[i]>>]

\* Mutant: the author is written to whenever the author has an address.
AuthorAlwaysGetsMail(author_email, recipients) == author_email # ""

\* on_article_approved: the condition of the author dispatch.
AuthorGetsMail(author_email, recipients) ==
    author_email # "" /\ author_email \notin Range(recipients)

AuthorMessages(art, recipients) ==
    IF AuthorGetsMail(email[art.author], recipients)
    THEN <<(<<"author", email[art.author]>>)>>
    ELSE <<>>

\* What the transport can do with one send_mass_mail(..., fail_silently=True).
MailOutcomes == {"ok", "fail_silent", "raise"}

\* Mutant: the dispatch without its try/except.
DispatchRaisesUncaught(outcome) == outcome = "raise"

\* on_article_approved wraps each dispatch in try/except Exception: pass, so no
\* outcome of the transport leaves the receiver.
DispatchRaises(outcome) == FALSE

\* ------------------------------------------------------------- Article.save
\* Mutant: clean without the author check.
AuthorNeverInvalid(i) == FALSE

\* Article.clean (through full_clean): the two ValidationErrors.
AuthorInvalid(i) == role[i.author] # "JOURNALIST"

\* Mutant: clean without the approved_at check.
ApprovedAtNeverInvalid(i) == FALSE

\* Mutant: the approved_at check made for drafts only.
ApprovedAtInvalidDraftOnly(i) == i.status = "DRAFT" /\ i.approved_at # None

ApprovedAtInvalid(i) == i.status # APPROVED /\ i.approved_at # None
CleanError(i) == AuthorInvalid(i) \/ ApprovedAtInvalid(i)

\* Article.clean: approved_at is filled in when the status is APPROVED.
CleanNeedsNow(i) == i.status = APPROVED /\ i.approved_at = None

\* Mutant: the flag set without a look at the persisted row.
JustApprovedIgnoresPrevious(previous_status, new_status) ==
    new_status = APPROVED

\* mark_just_approved: the transition test against the persisted row.
JustApproved(previous_status, new_status) ==
    previous_status # APPROVED /\ new_status = APPROVED

\* Mutant: the receiver without its branch for unsaved instances.
mark_saved_only(i) ==
    IF i.pk = None \/ i.pk \notin live THEN FALSE
    ELSE JustApproved(rows[i.pk].status, i.status)

\* mark_just_approved: the flag the receiver leaves on the instance.
mark_just_approved(i) ==
    IF i.pk = None THEN i.status = APPROVED
    ELSE IF i.pk \notin live THEN FALSE
    ELSE JustApproved(rows[i.pk].status, i.status)

\* mark_just_approved: instance.approved_at or timezone.now(), when flagged.
SignalNeedsNow(i, flagged) == flagged /\ i.approved_at = None

\* The instance as full_clean and the pre_save receiver leave it: at most one
\* of the two reads the clock.
Stamped(i) ==
    IF CleanNeedsNow(i) \/ SignalNeedsNow(i, mark_just_approved(i))
    THEN [i EXCEPT !.approved_at = clock]
    ELSE i

\* The request in slot s is over, with outcome r.  It stays known whether the
\* request changed an Article row and whether it handed a message to the mail
\* transport (told: it does so in this very step).
Over(s, r, told) ==
    /\ pc' = [pc EXCEPT ![s] = "idle"]
    /\ req' = [req EXCEPT ![s] =
                 [Request(@.op, @.actor, @.pk) EXCEPT
                     !.changed = req[s].changed,
                     !.notified = req[s].notified \/ told]]
    /\ inst' = [inst EXCEPT ![s] = NoInst]
    /\ resp' = [resp EXCEPT ![s] = r]

Finish(s, r) == Over(s, r, FALSE)

\* A request that ends in the view, before any write.
Return(s, op, u, a, r) ==
    /\ pc' = [pc EXCEPT ![s] = "idle"]
    /\ req' = [req EXCEPT ![s] = Request(op, u, a)]
    /\ inst' = [inst EXCEPT ![s] = NoInst]
    /\ resp' = [resp EXCEPT ![s] = r]
    /\ UNCHANGED <<userVars, storeVars, mailVars, clock>>

Refuse(s, op, u, a, kind) == Return(s, op, u, a, Resp(kind, None, NoMail))

\* The view hands the instance to Article.save.
StartSave(s, op, u, i, uf, todo) ==
    /\ pc' = [pc EXCEPT ![s] = "clean"]
    /\ req' = [req EXCEPT ![s] = [Request(op, u, i.pk) EXCEPT
                                     !.update_fields = uf, !.todo = todo]]
    /\ inst' = [inst EXCEPT ![s] = i]
    /\ resp' = [resp EXCEPT ![s] = Resp("pending", None, NoMail)]

\* Article.save, first half: full_clean (it reads the author's role) and the
\* pre_save receiver mark_just_approved (it reads the persisted row).
ArticlePreSave(s) ==
    /\ pc[s] = "clean"
    /\ LET i == inst[s]
       IN IF CleanError(i)
          THEN /\ Finish(s, Resp("validation_error", None, NoMail))
               /\ UNCHANGED <<userVars, storeVars, mailVars, clock>>
          ELSE /\ Stamped(i) # i => clock <= MaxClock
               /\ inst' = [inst EXCEPT ![s] = Stamped(i)]
               /\ req' = [req EXCEPT ![s].just_approved = mark_just_approved(i),
                                      ![s].auto_now = Stamped(i) # i]
               /\ clock' = IF Stamped(i) # i THEN clock + 1 ELSE clock
               /\ pc' = [pc EXCEPT ![s] = "write"]
               /\ UNCHANGED <<userVars, storeVars, mailVars, resp>>

Fields(i) == [author |-> i.author, publisher |-> i.publisher,
              status |-> i.status, approved_at |-> i.approved_at]

\* Mutant: status is missing from the update_fields of the approve views.
WrittenWithoutStatus(old, i, uf) ==
    IF uf THEN [old EXCEPT !.approved_at = i.approved_at] ELSE Fields(i)

\* The columns an UPDATE writes: all of them, or update_fields.
Written(old, i, uf) ==
    IF uf
    THEN [old EXCEPT !.status = i.status, !.approved_at = i.approved_at]
    ELSE Fields(i)

\* Article.save, second half: Model.save writes the row (INSERT for an unsaved
\* instance, UPDATE for a saved one, INSERT again when the UPDATE finds no row).
ArticleWrite(s) ==
    /\ pc[s] = "write"
    /\ LET i == inst[s]
       IN IF i.pk = None
          THEN /\ nextPk <= MaxArticles
               /\ live' = live \cup {nextPk}
               /\ rows' = [rows EXCEPT ![nextPk] = Fields(i)]
               /\ nextPk' = nextPk + 1
               /\ inst' = [inst EXCEPT ![s].pk = nextPk]
               /\ req' = [req EXCEPT ![s].pk = nextPk, ![s].changed = TRUE]
               /\ transitions' = [transitions EXCEPT ![nextPk] =
                                     @ + (IF i.status = APPROVED THEN 1 ELSE 0)]
               /\ pc' = [pc EXCEPT ![s] = "post"]
               /\ UNCHANGED resp
          ELSE IF i.pk \in live
          THEN /\ rows' = [rows EXCEPT ![i.pk] =
                              Written(@, i, req[s].update_fields)]
               /\ transitions' = [transitions EXCEPT ![i.pk] =
                     @ + (IF rows[i.pk].status # APPROVED /\ i.status = APPROVED
                          THEN 1 ELSE 0)]
               /\ req' = [req EXCEPT ![s].changed =
                             @ \/ Written(rows[i.pk], i, req[s].update_fields)
                                     # rows[i.pk]]
               /\ pc' = [pc EXCEPT ![s] = "post"]
               /\ UNCHANGED <<live, nextPk, inst, resp>>
          ELSE IF req[s].update_fields
          THEN /\ Finish(s, Resp("database_error", None, NoMail))
               /\ UNCHANGED <<storeVars, transitions>>
          ELSE /\ live' = live \cup {i.pk}
               /\ rows' = [rows EXCEPT ![i.pk] = Fields(i)]
               /\ transitions' = [transitions EXCEPT ![i.pk] =
                                     @ + (IF i.status = APPROVED THEN 1 ELSE 0)]
               /\ req' = [req EXCEPT ![s].changed = TRUE]
               /\ pc' = [pc EXCEPT ![s] = "post"]
               /\ UNCHANGED <<nextPk, inst, resp>>
    /\ UNCHANGED <<userVars, clock, fanouts>>

\* What the view answers once save has returned.
Answer(op) ==
    CASE op = "approve" -> "approved"
      [] op = "approve_article" -> "redirect"
      [] op = "ArticleUpdateView" -> "redirect"
      [] op = "approve_articles" -> "admin_done"
      [] op = "perform_create" -> "created"
      [] op = "perform_update" -> "updated"
      [] OTHER -> "saved"

\* The request goes on after save: the admin action takes its next article,
\* every other view returns.
AfterSave(s, mail, sent) ==
    IF \E k \in 1 .. 2 : DispatchRaises(mail[k])
    THEN Over(s, Outcome("server_error", None, mail, sent), sent # <<>>)
    ELSE IF req[s].op = "approve_articles" /\ req[s].todo # <<>>
    THEN /\ pc' = [pc EXCEPT ![s] = "admin_next"]
         /\ resp' = [resp EXCEPT ![s] = Outcome("pending", None, mail, sent)]
         /\ req' = [req EXCEPT ![s].notified = @ \/ sent # <<>>]
         /\ UNCHANGED inst
    ELSE Over(s, Outcome(Answer(req[s].op), inst[s].approved_at, mail, sent),
              sent # <<>>)

\* The post_save receiver on_article_approved, and the return of the view.
on_article_approved(s, o1, o2) ==
    /\ pc[s] = "post"
    /\ LET i == inst[s]
           recipients == subscriber_emails(i)
           toSubscribers == IF recipients # <<>>
                            THEN SubscriberMessages(recipients) ELSE <<>>
           toAuthor == AuthorMessages(i, recipients)
       IN IF ~req[s].just_approved
          THEN /\ o1 = "none" /\ o2 = "none"
               /\ AfterSave(s, NoMail, <<>>)
               /\ UNCHANGED fanouts
          ELSE /\ o1 = "none" <=> toSubscribers = <<>>
               /\ o2 = "none" <=> toAuthor = <<>>
               /\ fanouts' = [fanouts EXCEPT ![i.pk] = @ + 1]
               /\ AfterSave(s, <<o1, o2>>,
                            IF DispatchRaises(o1) THEN toSubscribers
                            ELSE toSubscribers \o toAuthor)
    /\ UNCHANGED <<userVars, storeVars, clock, transitions>>

\* ------------------------------------------------------------ REST API views
\* Mutant: the view stamps approved_at on every approval.
AlwaysNow(at) == clock

\* timezone.now() where the view fills a missing approved_at.
ApprovedAtOrNow(at) == IF at = None THEN clock ELSE at

\* The approve views: status = APPROVED, approved_at kept or set to now.
Approved(article) ==
    [article EXCEPT !.status = APPROVED, !.approved_at = ApprovedAtOrNow(@)]

\* The view reads the clock when approved_at is missing.
ViewReadsClock(at) ==
    /\ at = None => clock <= MaxClock
    /\ clock' = IF at = None THEN clock + 1 ELSE clock

\* The history counters stay bounded: no save of a starts past MaxFanouts.
WithinBudget(a) == fanouts[a] < MaxFanouts /\ transitions[a] < MaxFanouts

\* ArticleViewSet.create -> get_permissions, perform_create
perform_create(s, u, p) ==
    /\ pc[s] = "idle"
    /\ IF ~IsJournalist(u) THEN Refuse(s, "perform_create", u, None, "denied")
       ELSE IF ~is_journalist(u) /\ ~(is_staff[u] \/ is_superuser[u])
       THEN Refuse(s, "perform_create", u, None, "denied")
       ELSE /\ nextPk <= MaxArticles
            /\ StartSave(s, "perform_create", u,
                         [pk |-> None, author |-> u, publisher |-> p,
                          status |-> PENDING, approved_at |-> None],
                         FALSE, <<>>)
            /\ UNCHANGED <<userVars, storeVars, mailVars, clock>>

\* Mutant: status is a writable field and the client sends DRAFT.
EditedWithStatus(article, p) ==
    [article EXCEPT !.publisher = p, !.status = "DRAFT"]

\* ArticleSerializer on update: status, author and approved_at are read-only,
\* the writable fields of the request (here the publisher) are set on the
\* instance.
Edited(article, p) == [article EXCEPT !.publisher = p]

\* perform_update / perform_destroy: the role and ownership test on the object.
ObjectDenied(u, author) ==
    IF is_superuser[u] \/ is_staff[u] THEN FALSE
    ELSE IF is_editor(u) THEN FALSE
    ELSE IF is_journalist(u) THEN author # u
    ELSE TRUE

\* get_permissions for update, partial_update and destroy.
WritePermission(u) == IsJournalist(u)

\* ArticleViewSet.update -> get_permissions, get_object, perform_update
perform_update(s, u, a, p) ==
    /\ pc[s] = "idle"
    /\ WithinBudget(a)
    /\ IF ~WritePermission(u) THEN Refuse(s, "perform_update", u, a, "denied")
       ELSE IF a \notin get_queryset(u)
       THEN Refuse(s, "perform_update", u, a, "not_found")
       ELSE IF ObjectDenied(u, rows[a].author)
       THEN Refuse(s, "perform_update", u, a, "denied")
       ELSE /\ StartSave(s, "perform_update", u, Edited(Load(a), p),
                         FALSE, <<>>)
            /\ UNCHANGED <<userVars, storeVars, mailVars, clock>>

\* ArticleViewSet.destroy -> get_permissions, get_object, perform_destroy
perform_destroy(s, u, a) ==
    /\ pc[s] = "idle"
    /\ IF ~WritePermission(u) THEN Refuse(s, "perform_destroy", u, a, "denied")
       ELSE IF a \notin get_queryset(u)
       THEN Refuse(s, "perform_destroy", u, a, "not_found")
       ELSE IF ObjectDenied(u, rows[a].author)
       THEN Refuse(s, "perform_destroy", u, a, "denied")
       ELSE /\ live' = live \ {a}
            /\ rows' = [rows EXCEPT ![a] = NoRow]
            /\ pc' = [pc EXCEPT ![s] = "idle"]
            /\ req' = [req EXCEPT ![s] = [Request("perform_destroy", u, a)
                                             EXCEPT !.changed = TRUE]]
            /\ inst' = [inst EXCEPT ![s] = NoInst]
            /\ resp' = [resp EXCEPT ![s] = Resp("deleted", None, NoMail)]
            /\ UNCHANGED <<userVars, nextPk, mailVars, clock>>

\* get_permissions for list, retrieve, mine and subscribed: IsAuthenticated.
ReadPermission(u) == IsAuth(u)

\* ArticleViewSet.list -> get_permissions, get_queryset
list(s, u) ==
    /\ pc[s] = "idle"
    /\ IF ~ReadPermission(u) THEN Refuse(s, "list", u, None, "denied")
       ELSE Return(s, "list", u, None, Listing(get_queryset(u)))

\* ArticleViewSet.retrieve -> get_permissions, get_object
retrieve(s, u, a) ==
    /\ pc[s] = "idle"
    /\ IF ~ReadPermission(u) THEN Refuse(s, "retrieve", u, a, "denied")
       ELSE IF a \notin get_queryset(u) THEN Refuse(s, "retrieve", u, a, "not_found")
       ELSE Return(s, "retrieve", u, a, Listing({a}))

\* Mutant: subscribed without its status filter.
AnyStatus(a) == TRUE

\* subscribed: Article.objects.filter(status=APPROVED)
IsApprovedRow(a) == rows[a].status = APPROVED

\* subscribed: publisher IN the reader's publishers OR author IN the reader's
\* journalists.  Both are IN-subqueries: an article is selected at most once.
InSubscriptions(u, a) ==
    rows[a].publisher \in subsP[u] \/ rows[a].author \in subsJ[u]

\* order_by("-approved_at", "-created_at"): newest approval first, then newest
\* row first (primary keys are handed out in creation order).
RECURSIVE OrderedByApproval(_)
OrderedByApproval(S) ==
    IF S = {} THEN <<>>
    ELSE LET m == CHOOSE x \in S : \A y \in S :
                      \/ rows[y].approved_at < rows[x].approved_at
                      \/ rows[y].approved_at = rows[x].approved_at /\ y <= x
         IN <<m>> \o OrderedByApproval(S \ {m})

\* ArticleViewSet.subscribed -> get_permissions, then the query of the action.
subscribed(s, u) ==
    /\ pc[s] = "idle"
    /\ IF ~ReadPermission(u) THEN Refuse(s, "subscribed", u, None, "denied")
       ELSE Return(s, "subscribed", u, None,
                   Page(IF is_reader(u)
                        THEN Distinct(OrderedByApproval(
                                 {a \in live : IsApprovedRow(a)
                                                /\ InSubscriptions(u, a)}))
                        ELSE <<>>))

\* Mutant: approve without its already-approved branch.
NeedsApprovalAlways(article) == TRUE

\* approve: the article is approved only when it is not approved yet.
NeedsApproval(article) == article.status # APPROVED

\* ArticleViewSet.approve
approve(s, u, a) ==
    /\ pc[s] = "idle"
    /\ WithinBudget(a)
    /\ IF ~IsEditor(u) THEN Refuse(s, "approve", u, a, "denied")
       ELSE IF a \notin get_queryset(u) THEN Refuse(s, "approve", u, a, "not_found")
       ELSE LET article == Load(a)
            IN IF NeedsApproval(article)
               THEN /\ ViewReadsClock(article.approved_at)
                    /\ StartSave(s, "approve", u, Approved(article), TRUE, <<>>)
                    /\ UNCHANGED <<userVars, storeVars, mailVars>>
               ELSE Return(s, "approve", u, a,
                           Resp("already_approved", article.approved_at, NoMail))

\* ------------------------------------------------------ server-rendered views
\* views.approve_article: login_required, permission_required(can_approve)
approve_article(s, u, a) ==
    /\ pc[s] = "idle"
    /\ WithinBudget(a)
    /\ IF ~IsAuth(u) THEN Refuse(s, "approve_article", u, a, "login_required")
       ELSE IF ~has_perm(u, "can_approve")
       THEN Refuse(s, "approve_article", u, a, "denied")
       ELSE IF a \notin live THEN Refuse(s, "approve_article", u, a, "not_found")
       ELSE /\ ViewReadsClock(rows[a].approved_at)
            /\ StartSave(s, "approve_article", u, Approved(Load(a)), TRUE, <<>>)
            /\ UNCHANGED <<userVars, storeVars, mailVars>>

\* views.LandingView: no login; the queryset is the APPROVED articles, ordered
\* by ("-approved_at", "-created_at").
LandingView(s, u) ==
    /\ pc[s] = "idle"
    /\ Return(s, "LandingView", u, None,
              Page(OrderedByApproval({a \in live : rows[a].status = APPROVED})))

\* views.ArticleDetailView: LoginRequiredMixin, then DetailView.get_object over
\* Article.objects.all(): the article goes into the context of the page.
ArticleDetailView(s, u, a) ==
    /\ pc[s] = "idle"
    /\ IF ~IsAuth(u) THEN Refuse(s, "ArticleDetailView", u, a, "login_required")
       ELSE IF a \notin live THEN Refuse(s, "ArticleDetailView", u, a, "not_found")
       ELSE Return(s, "ArticleDetailView", u, a, Listing({a}))

\* views.DashboardView: a TemplateView without a login; get_context_data puts
\* every PENDING and every DRAFT article into the context of the page.
DashboardView(s, u) ==
    /\ pc[s] = "idle"
    /\ Return(s, "DashboardView", u, None,
              Listing({a \in live : rows[a].status = PENDING}
                          \cup {a \in live : rows[a].status = "DRAFT"}))

\* views.ArticleCreateView: login, add_article, then form.is_valid().  The form
\* has no author field, so ModelForm validation runs Article.clean on an
\* instance whose author is not set yet: reading self.author raises
\* RelatedObjectDoesNotExist, which is no ValidationError, before form_valid can
\* assign the author and the status.  Nothing is saved.
ArticleCreateView(s, u, p) ==
    /\ pc[s] = "idle"
    /\ IF ~IsAuth(u) THEN Refuse(s, "ArticleCreateView", u, None, "login_required")
       ELSE IF ~has_perm(u, "add_article")
       THEN Refuse(s, "ArticleCreateView", u, None, "denied")
       ELSE Refuse(s, "ArticleCreateView", u, None, "server_error")

\* views.ArticleUpdateView: login, change_article, get_object over every article;
\* ArticleForm validates the instance (Article.clean) and form.save() saves it.
ArticleUpdateView(s, u, a, p) ==
    /\ pc[s] = "idle"
    /\ WithinBudget(a)
    /\ IF ~IsAuth(u) THEN Refuse(s, "ArticleUpdateView", u, a, "login_required")
       ELSE IF ~has_perm(u, "change_article")
       THEN Refuse(s, "ArticleUpdateView", u, a, "denied")
       ELSE IF a \notin live THEN Refuse(s, "ArticleUpdateView", u, a, "not_found")
       ELSE IF CleanError([Load(a) EXCEPT !.publisher = p])
       THEN Refuse(s, "ArticleUpdateView", u, a, "form_invalid")
       ELSE /\ StartSave(s, "ArticleUpdateView", u,
                         [Load(a) EXCEPT !.publisher = p], FALSE, <<>>)
            /\ UNCHANGED <<userVars, storeVars, mailVars, clock>>

\* views.ArticleDeleteView: login, delete_article, get_object, delete.
ArticleDeleteView(s, u, a) ==
    /\ pc[s] = "idle"
    /\ IF ~IsAuth(u) THEN Refuse(s, "ArticleDeleteView", u, a, "login_required")
       ELSE IF ~has_perm(u, "delete_article")
       THEN Refuse(s, "ArticleDeleteView", u, a, "denied")
       ELSE IF a \notin live THEN Refuse(s, "ArticleDeleteView", u, a, "not_found")
       ELSE /\ live' = live \ {a}
            /\ rows' = [rows EXCEPT ![a] = NoRow]
            /\ pc' = [pc EXCEPT ![s] = "idle"]
            /\ req' = [req EXCEPT ![s] = [Request("ArticleDeleteView", u, a)
                                             EXCEPT !.changed = TRUE]]
            /\ inst' = [inst EXCEPT ![s] = NoInst]
            /\ resp' = [resp EXCEPT ![s] = Resp("redirect", None, NoMail)]
            /\ UNCHANGED <<userVars, nextPk, mailVars, clock>>

\* ---------------------------------------------------------------- admin site
\* The selected primary keys, newest first (ArticleAdmin.ordering).
RECURSIVE Descending(_)
Descending(S) ==
    IF S = {} THEN <<>>
    ELSE LET m == CHOOSE x \in S : \A y \in S : y <= x
         IN <<m>> \o Descending(S \ {m})

\* admin.approve_articles: queryset.exclude(status=APPROVED), read once.
approve_articles(s, u, sel) ==
    /\ pc[s] = "idle"
    /\ sel # {}
    /\ \A a \in sel : WithinBudget(a)
    /\ IF ~(IsAuth(u) /\ is_staff[u] /\ has_perm(u, "change_article"))
       THEN Refuse(s, "approve_articles", u, None, "denied")
       ELSE LET todo == Descending({a \in sel : rows[a].status # APPROVED})
            IN IF todo = <<>>
               THEN Refuse(s, "approve_articles", u, None, "admin_done")
               ELSE /\ pc' = [pc EXCEPT ![s] = "admin_next"]
                    /\ req' = [req EXCEPT ![s] =
                                 [Request("approve_articles", u, None) EXCEPT
                                     !.todo = [k \in 1 .. Len(todo) |->
                                                 Load(todo[k])]]]
                    /\ resp' = [resp EXCEPT ![s] = Resp("pending", None, NoMail)]
                    /\ UNCHANGED <<inst, userVars, storeVars, mailVars, clock>>

\* admin.approve_articles: one turn of the loop, up to a.save().
approve_articles_next(s) ==
    /\ pc[s] = "admin_next"
    /\ LET a == Head(req[s].todo)
       IN /\ ViewReadsClock(a.approved_at)
          /\ inst' = [inst EXCEPT ![s] = Approved(a)]
          /\ req' = [req EXCEPT ![s].todo = Tail(@), ![s].pk = a.pk,
                                 ![s].just_approved = FALSE]
          /\ pc' = [pc EXCEPT ![s] = "clean"]
          /\ resp' = [resp EXCEPT ![s] = Resp("pending", None, NoMail)]
          /\ UNCHANGED <<userVars, storeVars, mailVars>>

\* ------------------------------------------------------------- ORM callers
\* Article.objects.create(...) as test_api.py and seed_demo_articles call it:
\* any status, approved_at absent or timezone.now().
objects_create(s, author, p, st, stamped) ==
    /\ pc[s] = "idle"
    /\ nextPk <= MaxArticles
    /\ stamped => clock <= MaxClock
    /\ StartSave(s, "objects_create", Anonymous,
                 [pk |-> None, author |-> author, publisher |-> p,
                  status |-> st,
                  approved_at |-> IF stamped THEN clock ELSE None],
                 FALSE, <<>>)
    /\ clock' = IF stamped THEN clock + 1 ELSE clock
    /\ UNCHANGED <<userVars, storeVars, mailVars>>

\* instance.save() once more on the instance a create has returned, with
\* nothing changed on it: it carries the primary key and the fields the create
\* wrote.
instance_save(s, a) ==
    /\ pc[s] = "idle"
    /\ a \in live
    /\ WithinBudget(a)
    /\ StartSave(s, "instance_save", Anonymous, Load(a), FALSE, <<>>)
    /\ UNCHANGED <<userVars, storeVars, mailVars, clock>>

\* ------------------------------------------------------------------- users
\* Mutant: the receiver creates a profile on every save of a journalist.
ProfileCreate(n) == n + 1

\* JournalistProfile.objects.get_or_create(user=instance): the number of profile
\* rows of the user after the call, given the number before it.
ProfileGetOrCreate(n) == IF n = 0 THEN 1 ELSE n

\* ensure_journalist_profile: the profile rows of a user saved with role r.
ensure_journalist_profile(n, r) ==
    IF r = "JOURNALIST" THEN ProfileGetOrCreate(n) ELSE n

\* User.save, first half: the row write, then the post_save receiver
\* ensure_journalist_profile.
user_save(s, u, r) ==
    /\ pc[s] = "idle"
    /\ role' = [role EXCEPT ![u] = r]
    /\ profiles' = [profiles EXCEPT ![u] = ensure_journalist_profile(@, r)]
    /\ pc' = [pc EXCEPT ![s] = "groups"]
    /\ req' = [req EXCEPT ![s] = [Request("user_save", u, None) EXCEPT
                                     !.new_role = r,
                                     !.groups_before = groups[u]]]
    /\ resp' = [resp EXCEPT ![s] = Resp("pending", None, NoMail)]
    /\ UNCHANGED <<groups, subsP, subsJ, inst, storeVars, mailVars, clock>>

\* Mutant: the group is added to the user's groups.
GroupsAdded(old, g) == old \cup {g}

\* self.groups.set([g]): the user's groups after the call.
GroupsSet(old, g) == {g}

\* User.save, second half: self.groups.set([g]).  The saved role and the groups
\* the user had before the save stay known once the save is over.
user_set_groups(s) ==
    /\ pc[s] = "groups"
    /\ groups' = [groups EXCEPT ![req[s].actor] =
                     GroupsSet(@, role_to_group(req[s].new_role))]
    /\ pc' = [pc EXCEPT ![s] = "idle"]
    /\ req' = [req EXCEPT ![s] =
                 [Request(@.op, @.actor, @.pk) EXCEPT
                     !.new_role = req[s].new_role,
                     !.groups_before = req[s].groups_before]]
    /\ inst' = [inst EXCEPT ![s] = NoInst]
    /\ resp' = [resp EXCEPT ![s] = Resp("saved", None, NoMail)]
    /\ UNCHANGED <<role, subsP, subsJ, profiles, storeVars, mailVars, clock>>

\* user.groups.add(g): a group handed to the user outside User.save, as the
\* groups field of the admin's user form does.
groups_add(s, u, g) ==
    /\ pc[s] = "idle"
    /\ g \notin groups[u]
    /\ groups' = [groups EXCEPT ![u] = @ \cup {g}]
    /\ req' = [req EXCEPT ![s] = Request("groups_add", u, None)]
    /\ resp' = [resp EXCEPT ![s] = Resp("saved", None, NoMail)]
    /\ UNCHANGED <<role, subsP, subsJ, profiles, storeVars, mailVars, clock,
                   pc, inst>>

\* user.subscriptions_to_publishers.add(p)
subscribe_publisher(s, u, p) ==
    /\ pc[s] = "idle"
    /\ p \notin subsP[u]
    /\ subsP' = [subsP EXCEPT ![u] = @ \cup {p}]
    /\ req' = [req EXCEPT ![s] = Request("subscribe_publisher", u, None)]
    /\ resp' = [resp EXCEPT ![s] = Resp("saved", None, NoMail)]
    /\ UNCHANGED <<role, groups, subsJ, profiles, storeVars, mailVars, clock,
                   pc, inst>>

\* user.subscriptions_to_journalists.add(j), limit_choices_to role JOURNALIST
subscribe_journalist(s, u, j) ==
    /\ pc[s] = "idle"
    /\ j \notin subsJ[u]
    /\ role[j] = "JOURNALIST"
    /\ subsJ' = [subsJ EXCEPT ![u] = @ \cup {j}]
    /\ req' = [req EXCEPT ![s] = Request("subscribe_journalist", u, None)]
    /\ resp' = [resp EXCEPT ![s] = Resp("saved", None, NoMail)]
    /\ UNCHANGED <<role, groups, subsP, profiles, storeVars, mailVars, clock,
                   pc, inst>>

\* ------------------------------------------------------------ specifications
RoleChangers == {"rea", "ron"}
Subscribers == {"rea"}
Journalists == {"jo", "jay"}
\* One caller of each kind: the author, another journalist, an editor, a reader,
\* a staff superuser and the anonymous visitor.
Callers == {"jo", "jay", "ed", "rea", "adm", Anonymous}

\* The steps of Article.save and of its receivers.
SaveNext(s) ==
    \/ ArticlePreSave(s)
    \/ ArticleWrite(s)
    \/ \E o1, o2 \in MailOutcomes \cup {"none"} : on_article_approved(s, o1, o2)

\* Every article operation, by every actor.  Creates choose the publisher; an
\* update moves the article to PLANET, an ORM create files an article of jo
\* under SCOOP.
WorkflowNext(s) ==
    \/ \E u \in Callers, p \in Publishers : perform_create(s, u, p)
    \/ \E u \in Callers, a \in Pks : perform_update(s, u, a, "PLANET")
    \/ \E u \in Callers, a \in Pks : perform_destroy(s, u, a)
    \/ \E u \in Callers, a \in Pks : approve(s, u, a)
    \/ \E u \in Callers, a \in Pks : approve_article(s, u, a)
    \/ \E u \in Callers, a \in Pks : ArticleUpdateView(s, u, a, "PLANET")
    \/ \E u \in Callers, a \in Pks : ArticleDeleteView(s, u, a)
    \/ \E u \in {"adm", "ed"}, sel \in SUBSET live : approve_articles(s, u, sel)
    \/ approve_articles_next(s)
    \/ \E st \in Statuses, stamped \in BOOLEAN :
          objects_create(s, "jo", "SCOOP", st, stamped)
    \/ SaveNext(s)

\* One worker, the users as seeded: the requests are served one after the other.
Next == \E s \in {1} : WorkflowNext(s)
Spec == Init /\ [][Next]_vars

\* One worker, one article in the store at a time, while roles and
\* subscriptions change between the requests.
FanoutNext ==
    \E s \in {1} :
        \/ \E u \in Journalists, p \in Publishers :
              live = {} /\ perform_create(s, u, p)
        \/ \E u \in {"ed", "jo"}, a \in Pks : perform_destroy(s, u, a)
        \/ \E u \in {"ed", "rea", Anonymous}, a \in Pks : approve(s, u, a)
        \/ \E u \in {"ed", "rea", Anonymous}, a \in Pks :
              approve_article(s, u, a)
        \/ SaveNext(s)
        \/ \E u \in RoleChangers, r \in Roles : user_save(s, u, r)
        \/ user_set_groups(s)
        \/ \E u \in Subscribers, p \in Publishers : subscribe_publisher(s, u, p)
        \/ \E u \in Subscribers, j \in Journalists : subscribe_journalist(s, u, j)
FanoutSpec == Init /\ [][FanoutNext]_vars

\* One worker: creates and reads by every kind of caller, over articles of every
\* status, while the role of rea changes between the requests.
AccessNext ==
    \E s \in {1} :
        \/ \E u \in Callers, p \in Publishers : perform_create(s, u, p)
        \/ \E u \in Callers, p \in Publishers : ArticleCreateView(s, u, p)
        \/ \E j \in Journalists, p \in Publishers, st \in Statuses :
              objects_create(s, j, p, st, st = APPROVED)
        \/ \E u \in Callers : list(s, u)
        \/ \E u \in Actors : subscribed(s, u)
        \/ \E u \in Callers, a \in Pks : retrieve(s, u, a)
        \/ \E u \in Callers : LandingView(s, u)
        \/ \E u \in Callers, a \in Pks : ArticleDetailView(s, u, a)
        \/ \E u \in Callers : DashboardView(s, u)
        \/ \E r \in Roles : user_save(s, "rea", r)
        \/ user_set_groups(s)
        \/ SaveNext(s)
AccessSpec == Init /\ [][AccessNext]_vars

\* One worker, no articles: user saves with any role, subscription additions and
\* group assignments, one after the other.
UserNext ==
    \E s \in {1} :
        \/ \E u \in RoleChangers, r \in Roles : user_save(s, u, r)
        \/ user_set_groups(s)
        \/ \E u \in Subscribers, p \in Publishers : subscribe_publisher(s, u, p)
        \/ \E u \in Subscribers, j \in Journalists : subscribe_journalist(s, u, j)
        \/ \E g \in {"Editor", "Journalist"} : groups_add(s, "ron", g)
UserSpec == Init /\ [][UserNext]_vars

\* One worker: articles of jo are created, edited and approved through every
\* entry point while jo's role changes between the requests.
AuthorRoleNext ==
    \E s \in {1} :
        \/ \E p \in Publishers : perform_create(s, "jo", p)
        \/ \E st \in Statuses : objects_create(s, "jo", "SCOOP", st, FALSE)
        \/ \E u \in {"jo", "adm"}, a \in Pks, p \in Publishers :
              perform_update(s, u, a, p)
        \/ \E u \in {"jay"}, a \in Pks, p \in Publishers :
              ArticleUpdateView(s, u, a, p)
        \/ \E a \in Pks : approve(s, "ed", a)
        \/ \E a \in Pks : approve_article(s, "ed", a)
        \/ \E sel \in SUBSET live : approve_articles(s, "adm", sel)
        \/ approve_articles_next(s)
        \/ \E r \in Roles : user_save(s, "jo", r)
        \/ user_set_groups(s)
        \/ SaveNext(s)
AuthorRoleSpec == Init /\ [][AuthorRoleNext]_vars

\* Two workers that only create and approve: two approvals of one article
\* interleave.
ApproveRaceNext ==
    \E s \in Slots :
        \/ \E u \in {"jo"}, p \in {"SCOOP"} : perform_create(s, u, p)
        \/ \E u \in {"ed"}, a \in Pks : approve(s, u, a)
        \/ \E u \in {"ed"}, a \in Pks : approve_article(s, u, a)
        \/ SaveNext(s)
ApproveRaceSpec == Init /\ [][ApproveRaceNext]_vars

\* Two workers: the steps of two requests on the same article interleave.
ConcNext ==
    \E s \in Slots :
        \/ \E u \in {"jo"}, p \in {"SCOOP"} : perform_create(s, u, p)
        \/ \E u \in {"jo"}, a \in Pks, p \in Publishers : perform_update(s, u, a, p)
        \/ \E u \in {"ed"}, a \in Pks : approve(s, u, a)
        \/ \E u \in {"ed"}, a \in Pks : approve_article(s, u, a)
        \/ SaveNext(s)
ConcSpec == Init /\ [][ConcNext]_vars

\* The store once journalists have filed an article in every row of the table:
\* PENDING articles of jo and of jay, none approved yet.
BulkInit ==
    /\ role = [u \in Users |->
                 CASE u \in {"jo", "jay"} -> "JOURNALIST"
                   [] u = "ed" -> "EDITOR"
                   [] OTHER -> "READER"]
    /\ groups = [u \in Users |-> {role_to_group(role[u])}]
    /\ subsP = [u \in Users |-> IF u = "rea" THEN {"SCOOP"} ELSE {}]
    /\ subsJ = [u \in Users |-> {}]
    /\ profiles = [u \in Users |-> IF u \in {"jo", "jay"} THEN 1 ELSE 0]
    /\ live = Stored
    /\ rows = [a \in Stored |->
                 [author |-> IF a = SeedPk THEN "jay" ELSE "jo",
                  publisher |-> "SCOOP", status |-> PENDING,
                  approved_at |-> None]]
    /\ nextPk = SeedPk + 1
    /\ clock = 1
    /\ pc = [s \in Slots |-> "idle"]
    /\ req = [s \in Slots |-> NoReq]
    /\ inst = [s \in Slots |-> NoInst]
    /\ resp = [s \in Slots |-> Resp("none", None, NoMail)]
    /\ fanouts = [a \in Stored |-> 0]
    /\ transitions = [a \in Stored |-> 0]

\* One worker over that store: the staff user approves selections in the admin,
\* the editor and a reader call approve, jo edits and deletes, while the roles
\* of the two authors change between the requests.
BulkNext ==
    \E s \in {1} :
        \/ \E sel \in SUBSET live : approve_articles(s, "adm", sel)
        \/ approve_articles_next(s)
        \/ \E u \in {"ed", "rea"}, a \in Stored : approve(s, u, a)
        \/ \E a \in Stored : perform_update(s, "jo", a, "PLANET")
        \/ \E u \in {"jo", "rea"}, a \in Stored : perform_destroy(s, u, a)
        \/ \E u \in {"jo", "jay"}, r \in {"READER", "JOURNALIST"} :
              user_save(s, u, r)
        \/ user_set_groups(s)
        \/ SaveNext(s)
BulkSpec == BulkInit /\ [][BulkNext]_vars

\* Two workers: saves of the user ed with a new role interleave with requests of
\* ed that read ed's role (the REST approve) or ed's groups (the web approve).
RoleRaceNext ==
    \E s \in Slots :
        \/ perform_create(s, "jo", "SCOOP")
        \/ \E r \in {"READER", "EDITOR"} : user_save(s, "ed", r)
        \/ user_set_groups(s)
        \/ \E a \in Pks : approve(s, "ed", a)
        \/ \E a \in Pks : approve_article(s, "ed", a)
        \/ SaveNext(s)
RoleRaceSpec == Init /\ [][RoleRaceNext]_vars

\* One worker: ORM creates of articles of every status, with and without an
\* approved_at, and saves of the created instances once more, while reader rea
\* adds subscriptions.
SeedNext ==
    \E s \in {1} :
        \/ \E j \in Journalists, p \in Publishers, st \in Statuses,
              stamped \in BOOLEAN : objects_create(s, j, p, st, stamped)
        \/ \E a \in Pks : instance_save(s, a)
        \/ \E p \in Publishers : subscribe_publisher(s, "rea", p)
        \/ \E j \in Journalists : subscribe_journalist(s, "rea", j)
        \/ SaveNext(s)
SeedSpec == Init /\ [][SeedNext]_vars

\* -------------------------------------------------------------- properties
\* A step in which slot s takes up a new request.
Begins(s) ==
    /\ pc[s] = "idle"
    /\ <<pc'[s], req'[s], resp'[s]>> # <<pc[s], req[s], resp[s]>>

\* A step in which on_article_approved runs the fan-out for slot s.
Dispatches(s) ==
    /\ pc[s] = "post"
    /\ pc'[s] # "post"
    /\ fanouts'[inst[s].pk] = fanouts[inst[s].pk] + 1

Count(q, x) == Cardinality({k \in DOMAIN q : q[k] = x})
SubscriberAddresses(sent) == {m[2] : m \in {x \in Range(sent) : x[1] = "subscriber"}}
AuthorAddresses(sent) == {m[2] : m \in {x \in Range(sent) : x[1] = "author"}}
MailFailed(mail) == \E k \in 1 .. 2 : mail[k] \in {"fail_silent", "raise"}

\* The recipient set as the specification words it: the non-empty emails of the
\* READER users subscribed to the article's publisher or to its author.
ExpectedRecipients(art) ==
    {email[u] : u \in {v \in Users : /\ role[v] = "READER"
                                     /\ \/ art.publisher \in subsP[v]
                                        \/ art.author \in subsJ[v]}} \ {""}

\* C1: with the requests served one after the other, whenever no save is between
\* its row write and its post_save receiver, every article has had exactly as
\* many fan-outs as row writes that took its persisted status from not APPROVED
\* (or from no row) to APPROVED: each such save dispatched once, no other did.
C1_FanoutOncePerTransition ==
    (\A s \in Slots : pc[s] # "post")
        => \A a \in Pks : fanouts[a] = transitions[a]

\* C1 witness: approve_article was run on an article that was approved before,
\* returned, and sent nothing: the article still has its one fan-out.
C1_Witness ==
    /\ pc[1] = "idle"
    /\ req[1].op = "approve_article"
    /\ resp[1].status = "redirect"
    /\ resp[1].sent = <<>>
    /\ req[1].pk \in live
    /\ fanouts[req[1].pk] = 1
    /\ transitions[req[1].pk] = 1

\* C2: an approve request by a permitted actor on an article whose persisted
\* status is APPROVED answers "already_approved" with the persisted approved_at,
\* writes nothing to the store and dispatches nothing.
C2_ApproveIdempotent ==
    [][\A s \in Slots :
          (/\ Begins(s)
           /\ req'[s].op = "approve"
           /\ IsEditor(req'[s].actor)
           /\ req'[s].pk \in live
           /\ rows[req'[s].pk].status = APPROVED)
          => /\ pc'[s] = "idle"
             /\ resp'[s].status = "already_approved"
             /\ resp'[s].approved_at = rows[req'[s].pk].approved_at
             /\ resp'[s].sent = <<>>
             /\ UNCHANGED <<live, rows, fanouts, transitions>>]_vars

\* C2 witness: an approve request has answered "already_approved" with a
\* timestamp.
C2_Witness ==
    /\ pc[1] = "idle"
    /\ req[1].op = "approve"
    /\ resp[1].status = "already_approved"
    /\ resp[1].approved_at # None
    /\ rows[req[1].pk].approved_at = resp[1].approved_at

\* C3: every persisted article has approved_at set if and only if its status is
\* APPROVED.
C3_ApprovedAtIffApproved ==
    \A a \in live : (rows[a].approved_at # None) <=> (rows[a].status = APPROVED)

\* C3 witness: an article created directly with status APPROVED is in the store
\* with its approved_at set.
C3_Witness ==
    /\ pc[1] = "idle"
    /\ req[1].op = "objects_create"
    /\ req[1].pk \in live
    /\ rows[req[1].pk].status = APPROVED
    /\ rows[req[1].pk].approved_at # None

\* C5: a save of an instance with status APPROVED and no approved_at sets
\* approved_at to the current time and persists it, and no later write that
\* keeps the persisted status APPROVED changes the persisted approved_at.
C5_ApprovedAtSetOnceAndKept ==
    [][/\ \A s \in Slots :
             (/\ pc[s] = "clean" /\ pc'[s] = "write"
              /\ inst[s].status = APPROVED /\ inst[s].approved_at = None)
             => inst'[s].approved_at = clock
       /\ \A s \in Slots :
             (pc[s] = "write" /\ pc'[s] = "post")
             => rows'[inst'[s].pk].approved_at = inst[s].approved_at
       /\ \A a \in live \cap live' :
             (rows[a].status = APPROVED /\ rows'[a].status = APPROVED)
             => rows'[a].approved_at = rows[a].approved_at]_vars

\* C5 witness: an instance that came to save with status APPROVED and no
\* approved_at has been written with the time of its save.
C5_Witness ==
    /\ pc[1] = "post"
    /\ req[1].op = "objects_create"
    /\ req[1].auto_now
    /\ rows[inst[1].pk].status = APPROVED
    /\ rows[inst[1].pk].approved_at = clock - 1

\* C6: a save of an instance whose status is DRAFT, PENDING or REJECTED and whose
\* approved_at is set ends in a ValidationError and leaves the store as it was.
C6_StaleApprovedAtRejected ==
    [][\A s \in Slots :
          (/\ pc[s] = "clean" /\ pc'[s] # "clean"
           /\ inst[s].status \in Statuses \ {APPROVED}
           /\ inst[s].approved_at # None)
          => /\ pc'[s] = "idle"
             /\ resp'[s].status = "validation_error"
             /\ UNCHANGED <<live, rows, nextPk>>]_vars

\* C6 witness: a direct create by a journalist has ended in a ValidationError
\* and stored nothing.
C6_Witness ==
    /\ pc[1] = "idle"
    /\ req[1].op = "objects_create"
    /\ resp[1].status = "validation_error"
    /\ live = {}

\* C7: when the transport failed in the subscriber dispatch or in the author
\* dispatch of a fan-out, the request still ends with its normal answer and the
\* article is persisted APPROVED with its approved_at.
C7_MailFailureKeepsApproval ==
    \A s \in Slots :
        (pc[s] \in {"idle", "admin_next"} /\ MailFailed(resp[s].mail))
        => /\ resp[s].status # "server_error"
           /\ pc[s] = "idle" => resp[s].status = Answer(req[s].op)
           /\ req[s].pk \in live
           /\ rows[req[s].pk].status = APPROVED
           /\ rows[req[s].pk].approved_at # None
           /\ req[s].op = "approve"
                 => /\ resp[s].status = "approved"
                    /\ resp[s].approved_at = rows[req[s].pk].approved_at

\* C7 witness: an API approve whose subscriber dispatch raised has answered
\* "approved".
C7_Witness ==
    /\ pc[1] = "idle"
    /\ req[1].op = "approve"
    /\ resp[1].mail[1] = "raise"
    /\ resp[1].status = "approved"

\* C8: in every fan-out the subscriber messages go to each address of the
\* expected recipient set (non-empty emails of the users that are READER at
\* dispatch time and subscribed to the article's publisher or author), to no
\* other address, and the list of recipients holds no address twice.
C8_RecipientSet ==
    [][\A s \in Slots :
          Dispatches(s)
          => /\ SubscriberAddresses(resp'[s].sent) = ExpectedRecipients(inst[s])
             /\ \A e \in ExpectedRecipients(inst[s]) :
                   Count(resp'[s].sent, <<"subscriber", e>>) = 1]_vars

\* C8 witness: a fan-out has been sent for an article whose publisher and author
\* reader rea is both subscribed to (the join selects rea more than once), while
\* ron, subscribed to the publisher, is no longer a READER.
C8_Witness ==
    /\ pc[1] = "idle"
    /\ resp[1].sent # <<>>
    /\ req[1].pk \in live
    /\ LET art == rows[req[1].pk]
       IN /\ role["rea"] = "READER"
          /\ art.publisher \in subsP["rea"]
          /\ art.author \in subsJ["rea"]
          /\ Cardinality(MatchingRows("rea", art)) > 1
          /\ role["ron"] # "READER"
          /\ art.publisher \in subsP["ron"]
          /\ SubscriberAddresses(resp[1].sent) = {"rea@x"}

\* C9: in every fan-out each recipient address is handed exactly one subscriber
\* message, the author is handed one more message exactly when the author's
\* email is non-empty and not a recipient address, and no address is handed two
\* messages.
C9_OneMessagePerAddress ==
    [][\A s \in Slots :
          Dispatches(s)
          => LET out == resp'[s].sent
                 rcpt == ExpectedRecipients(inst[s])
                 author_email == email[inst[s].author]
             IN /\ \A e \in rcpt : Count(out, <<"subscriber", e>>) = 1
                /\ Count(out, <<"author", author_email>>) =
                      (IF author_email # "" /\ author_email \notin rcpt
                       THEN 1 ELSE 0)
                /\ AuthorAddresses(out) \subseteq {author_email}
                /\ \A k1, k2 \in DOMAIN out :
                      out[k1][2] = out[k2][2] => k1 = k2]_vars

\* C9 witness: a fan-out has been sent in which the author's address is one of
\* the recipient addresses, so the author got the subscriber message only.
C9_Witness ==
    /\ pc[1] = "idle"
    /\ resp[1].sent # <<>>
    /\ req[1].pk \in live
    /\ email[rows[req[1].pk].author] # ""
    /\ email[rows[req[1].pk].author] \in SubscriberAddresses(resp[1].sent)
    /\ AuthorAddresses(resp[1].sent) = {}

\* An answer that lets the request through.
Permitted(r) == r.status \notin {"denied", "not_found", "login_required"}

\* C10: an update or delete request on a stored article by an actor who is no
\* admin is let through exactly when the actor is an Editor, or a Journalist
\* who is the article's author.
C10_UpdateDeletePolicy ==
    [][\A s \in Slots :
          (/\ Begins(s)
           /\ req'[s].op \in {"perform_update", "perform_destroy"}
           /\ req'[s].pk \in live
           /\ ~IsAdmin(req'[s].actor))
          => (Permitted(resp'[s])
                <=> /\ req'[s].actor \in Users
                    /\ \/ is_editor(req'[s].actor)
                       \/ /\ is_journalist(req'[s].actor)
                          /\ rows[req'[s].pk].author = req'[s].actor)]_vars

\* C4: when approvals of one article interleave, the article gets one fan-out
\* and only one of two API approve requests answers "approved".
C4_ConcurrentApproveOnce ==
    \A a \in Pks :
        /\ fanouts[a] <= 1
        /\ ~(/\ \A s \in Slots : /\ pc[s] = "idle"
                                 /\ req[s].op = "approve"
                                 /\ req[s].pk = a
                                 /\ resp[s].status = "approved")

\* C11: an update request (REST or web) by a Journalist on a stored article of
\* another author is answered with PermissionDenied, whatever the article's
\* status, and changes nothing in the store; on the Journalist's own article
\* the update goes through to the save.
C11_JournalistUpdatesOwnOnly ==
    [][\A s \in Slots :
          (/\ Begins(s)
           /\ req'[s].op \in {"perform_update", "ArticleUpdateView"}
           /\ req'[s].actor \in Users
           /\ is_journalist(req'[s].actor)
           /\ ~IsAdmin(req'[s].actor)
           /\ req'[s].pk \in live)
          => IF rows[req'[s].pk].author # req'[s].actor
             THEN /\ resp'[s].status = "denied"
                  /\ pc'[s] = "idle"
                  /\ UNCHANGED <<live, rows>>
             ELSE pc'[s] = "clean"]_vars

\* C12: an approve request (REST or web) by an actor who is neither an Editor
\* nor staff nor superuser, that is a Reader, a Journalist or an anonymous
\* visitor, is refused at once, leaves every article's row as it was and
\* dispatches no notification.
C12_ApproveEditorsOnly ==
    [][\A s \in Slots :
          (/\ Begins(s)
           /\ req'[s].op \in {"approve", "approve_article"}
           /\ ~(/\ req'[s].actor \in Users
                /\ is_editor(req'[s].actor) \/ IsAdmin(req'[s].actor)))
          => /\ resp'[s].status \in {"denied", "login_required"}
             /\ resp'[s].sent = <<>>
             /\ pc'[s] = "idle"
             /\ UNCHANGED <<live, rows, fanouts, transitions>>]_vars

\* C12 witness: rea, whose role was changed to JOURNALIST, asked the web view to
\* approve a stored PENDING article and was refused; the article is PENDING.
C12_Witness ==
    /\ pc[1] = "idle"
    /\ req[1].op = "approve_article"
    /\ req[1].actor = "rea"
    /\ role["rea"] = "JOURNALIST"
    /\ resp[1].status = "denied"
    /\ req[1].pk \in live
    /\ rows[req[1].pk].status = PENDING
    /\ rows[req[1].pk].approved_at = None

\* C13: a create request (REST or web) by an actor who is neither a Journalist
\* nor staff nor superuser, that is a Reader, an Editor or an anonymous visitor,
\* is refused at once and the article table is left as it was.
C13_CreateJournalistsOnly ==
    [][\A s \in Slots :
          (/\ Begins(s)
           /\ req'[s].op \in {"perform_create", "ArticleCreateView"}
           /\ ~(/\ req'[s].actor \in Users
                /\ is_journalist(req'[s].actor) \/ IsAdmin(req'[s].actor)))
          => /\ resp'[s].status \in {"denied", "login_required"}
             /\ pc'[s] = "idle"
             /\ UNCHANGED <<live, rows, nextPk>>]_vars

\* C13 witness: rea, whose role was changed to EDITOR, posted the web create
\* form and was refused; no article is stored.
C13_Witness ==
    /\ pc[1] = "idle"
    /\ req[1].op = "ArticleCreateView"
    /\ req[1].actor = "rea"
    /\ role["rea"] = "EDITOR"
    /\ resp[1].status = "denied"
    /\ live = {}

\* C14: every finished create request (REST or web) of an actor who passes
\* authorization, a Journalist or a staff or superuser account, has stored one
\* new article with status PENDING, the actor as author and no approved_at.
C14_CreateStoresPending ==
    \A s \in Slots :
        (/\ pc[s] = "idle"
         /\ req[s].op \in {"perform_create", "ArticleCreateView"}
         /\ req[s].actor \in Users
         /\ is_journalist(req[s].actor) \/ IsAdmin(req[s].actor))
        => /\ resp[s].status \in {"created", "redirect"}
           /\ req[s].pk \in live
           /\ rows[req[s].pk].status = PENDING
           /\ rows[req[s].pk].author = req[s].actor
           /\ rows[req[s].pk].approved_at = None

\* C15: a finished list request of an unauthenticated actor has succeeded and
\* returned exactly the stored articles whose status is APPROVED.
C15_AnonymousListsApproved ==
    \A s \in Slots :
        (pc[s] = "idle" /\ req[s].op = "list" /\ req[s].actor = Anonymous)
        => /\ resp[s].status = "ok"
           /\ resp[s].listed = {a \in live : rows[a].status = APPROVED}

\* The articles the specification lets a signed-in actor without staff rights
\* see: all for an Editor, own and APPROVED for a Journalist, APPROVED for a
\* Reader.
Visible(u) ==
    IF role[u] = "EDITOR" THEN live
    ELSE IF role[u] = "JOURNALIST"
    THEN {a \in live : rows[a].author = u \/ rows[a].status = APPROVED}
    ELSE {a \in live : rows[a].status = APPROVED}

\* C16: a finished list request of a signed-in actor without staff rights has
\* returned exactly the articles visible to the actor's role, a retrieve has
\* returned the article exactly when it is one of them, and no read of any
\* actor has returned an article that is not APPROVED to somebody who is
\* neither its author nor an Editor nor an admin.
C16_ReadVisibility ==
    \A s \in Slots :
        (pc[s] = "idle" /\ req[s].op \in {"list", "retrieve"})
        => LET u == req[s].actor
           IN /\ (u \in Users /\ ~IsAdmin(u) /\ req[s].op = "list")
                    => resp[s].status = "ok" /\ resp[s].listed = Visible(u)
              /\ (u \in Users /\ ~IsAdmin(u) /\ req[s].op = "retrieve")
                    => IF req[s].pk \in Visible(u)
                       THEN resp[s].status = "ok" /\ resp[s].listed = {req[s].pk}
                       ELSE resp[s].status = "not_found" /\ resp[s].listed = {}
              /\ \A a \in resp[s].listed :
                    \/ rows[a].status = APPROVED
                    \/ /\ u \in Users
                       /\ \/ rows[a].author = u
                          \/ is_editor(u)
                          \/ IsAdmin(u)

\* C16 witness: journalist jay listed the articles while the only stored
\* article is one by jo that is not APPROVED, and got nothing.
C16_Witness ==
    /\ pc[1] = "idle"
    /\ req[1].op = "list"
    /\ req[1].actor = "jay"
    /\ resp[1].status = "ok"
    /\ resp[1].listed = {}
    /\ \E a \in live : rows[a].author = "jo" /\ rows[a].status # APPROVED

\* C17: a save of a user with role JOURNALIST while the user has a subscription
\* to a publisher or to a journalist ends in a ValidationError and leaves the
\* user's persisted role as it was.
C17_JournalistWithSubscriptionsRejected ==
    [][\A s \in Slots :
          (/\ Begins(s)
           /\ req'[s].op = "user_save"
           /\ req'[s].new_role = "JOURNALIST"
           /\ subsP[req'[s].actor] # {} \/ subsJ[req'[s].actor] # {})
          => /\ resp'[s].status = "validation_error"
             /\ role'[req'[s].actor] = role[req'[s].actor]]_vars

\* C18: no user whose persisted role is JOURNALIST has a subscription to a
\* publisher or to a journalist.
C18_JournalistsHaveNoSubscriptions ==
    \A u \in Users :
        role[u] = "JOURNALIST" => subsP[u] = {} /\ subsJ[u] = {}

\* The group named after a role.
GroupOf(r) ==
    CASE r = "READER" -> "Reader"
      [] r = "EDITOR" -> "Editor"
      [] r = "JOURNALIST" -> "Journalist"

\* C19: when User.save has returned, the saved user is a member of exactly one
\* group, the one named after the user's role, whatever groups the user was in
\* before the save.
C19_OneGroupAfterSave ==
    \A s \in Slots :
        (pc[s] = "idle" /\ req[s].op = "user_save")
        => /\ groups[req[s].actor] = {GroupOf(role[req[s].actor])}
           /\ Cardinality(groups[req[s].actor]) = 1

\* C19 witness: ron, who was in all three groups, has been saved with role
\* EDITOR and is in the Editor group only.
C19_Witness ==
    /\ pc[1] = "idle"
    /\ req[1].op = "user_save"
    /\ req[1].actor = "ron"
    /\ req[1].groups_before = {"Reader", "Editor", "Journalist"}
    /\ role["ron"] = "EDITOR"
    /\ groups["ron"] = {"Editor"}

\* C20: a save of a user with role JOURNALIST leaves the user with exactly one
\* JournalistProfile; no step ever removes a profile, gives a user a second
\* one, or creates one outside such a save.
C20_OneProfilePerJournalist ==
    [][/\ \A s \in Slots :
             (Begins(s) /\ req'[s].op = "user_save"
                        /\ req'[s].new_role = "JOURNALIST")
             => profiles'[req'[s].actor] = 1
       /\ \A u \in Users :
             /\ profiles'[u] >= profiles[u]
             /\ profiles'[u] <= 1
             /\ profiles'[u] # profiles[u]
                   => \E s \in Slots : /\ Begins(s)
                                       /\ req'[s].op = "user_save"
                                       /\ req'[s].actor = u
                                       /\ req'[s].new_role = "JOURNALIST"]_vars

\* C20 witness: rea was saved as a journalist, has been saved again with role
\* READER, and still has the one profile.
C20_Witness ==
    /\ pc[1] = "idle"
    /\ req[1].op = "user_save"
    /\ req[1].actor = "rea"
    /\ req[1].groups_before = {"Journalist"}
    /\ role["rea"] = "READER"
    /\ profiles["rea"] = 1

\* The articles the subscribed query owes a reader: the APPROVED ones of a
\* publisher or of a journalist the reader is subscribed to.
Owed(u) ==
    {a \in live : /\ rows[a].status = APPROVED
                  /\ \/ rows[a].publisher \in subsP[u]
                     \/ rows[a].author \in subsJ[u]}

\* C21 as stated: a finished subscribed request of a Reader has returned the
\* articles owed to the reader, each once, and that of any other actor,
\* signed in or not, has succeeded with the empty list.
C21_SubscribedAsStated ==
    \A s \in Slots :
        (pc[s] = "idle" /\ req[s].op = "subscribed")
        => LET u == req[s].actor
           IN /\ resp[s].status = "ok"
              /\ IF u \in Users /\ role[u] = "READER"
                 THEN /\ Range(resp[s].page) = Owed(u)
                      /\ Len(resp[s].page) = Cardinality(Owed(u))
                 ELSE resp[s].page = <<>>

\* C21: a finished subscribed request of a Reader has returned the articles
\* owed to the reader, each once; that of a signed-in actor who is no Reader
\* has returned the empty list; that of an unauthenticated actor has been
\* refused and has returned no article.
C21_Subscribed ==
    \A s \in Slots :
        (pc[s] = "idle" /\ req[s].op = "subscribed")
        => LET u == req[s].actor
           IN IF u \notin Users
              THEN resp[s].status = "denied" /\ resp[s].page = <<>>
              ELSE /\ resp[s].status = "ok"
                   /\ IF role[u] = "READER"
                      THEN /\ Range(resp[s].page) = Owed(u)
                           /\ Len(resp[s].page) = Cardinality(Owed(u))
                      ELSE resp[s].page = <<>>

\* C21 witness: reader rea, subscribed to publisher SCOOP and to journalist
\* jo, asked for the subscribed articles and got the stored APPROVED article,
\* which is jo's with another publisher.
C21_Witness ==
    /\ pc[1] = "idle"
    /\ req[1].op = "subscribed"
    /\ req[1].actor = "rea"
    /\ role["rea"] = "READER"
    /\ Len(resp[1].page) = 1
    /\ rows[resp[1].page[1]].author = "jo"
    /\ rows[resp[1].page[1]].publisher \notin subsP["rea"]

\* C22: every Article save whose instance has an author that does not hold the
\* JOURNALIST role when the save validates ends in a ValidationError, writes no
\* row and dispatches nothing.
C22_AuthorMustBeJournalist ==
    [][\A s \in Slots :
          (/\ pc[s] = "clean" /\ pc'[s] # "clean"
           /\ role[inst[s].author] # "JOURNALIST")
          => /\ resp'[s].status = "validation_error"
             /\ pc'[s] = "idle"
             /\ UNCHANGED <<live, rows, nextPk, fanouts, transitions>>]_vars

\* C22 witness: the editor's approve of a stored PENDING article of jo, whose
\* role was changed away from JOURNALIST after the article was written, has
\* ended in a ValidationError and the article is still PENDING.
C22_Witness ==
    /\ pc[1] = "idle"
    /\ req[1].op = "approve"
    /\ resp[1].status = "validation_error"
    /\ req[1].pk \in live
    /\ rows[req[1].pk].author = "jo"
    /\ role["jo"] # "JOURNALIST"
    /\ rows[req[1].pk].status = PENDING
    /\ rows[req[1].pk].approved_at = None
    /\ fanouts[req[1].pk] = 0

\* The article operations: every create, update, delete and approve entry point.
ArticleOps == {"perform_create", "perform_update", "perform_destroy", "approve",
               "approve_article", "approve_articles", "ArticleCreateView",
               "ArticleUpdateView", "ArticleDeleteView", "objects_create"}

\* C23: an article operation that has ended in a ValidationError or in a
\* PermissionDenied has changed no Article row and has handed no message to the
\* mail transport.
C23_ErrorsLeaveNoTrace ==
    \A s \in Slots :
        (/\ pc[s] = "idle"
         /\ req[s].op \in ArticleOps
         /\ resp[s].status \in {"validation_error", "denied"})
        => ~req[s].changed /\ ~req[s].notified

\* C24: in every state of the store, each user's group set is exactly the group
\* of the user's stored role.
C24_RoleAndGroupsAgree ==
    \A u \in Users : groups[u] = {role_to_group(role[u])}

\* C25: with the requests served one after the other, every fan-out is run for
\* an article whose stored row already has status APPROVED and the approved_at
\* of the saved instance: the row write comes before the dispatch.
C25_DispatchAfterWrite ==
    [][\A s \in Slots :
          Dispatches(s)
          => /\ inst[s].pk \in live
             /\ rows[inst[s].pk].status = APPROVED
             /\ rows[inst[s].pk].approved_at # None
             /\ rows[inst[s].pk].approved_at = inst[s].approved_at
             /\ UNCHANGED <<live, rows>>]_vars

\* C25 witness: the web approve of a stored article has dispatched to a
\* subscriber, and the row is APPROVED with the approved_at the view reports.
C25_Witness ==
    /\ pc[1] = "idle"
    /\ req[1].op = "approve_article"
    /\ req[1].notified
    /\ \E k \in DOMAIN resp[1].sent : resp[1].sent[k][1] = "subscriber"
    /\ rows[req[1].pk].status = APPROVED
    /\ rows[req[1].pk].approved_at = resp[1].approved_at
    /\ resp[1].approved_at # None
    /\ fanouts[req[1].pk] = 1

\* C26: a finished request for the article detail page or for the dashboard
\* has put an article that is not APPROVED on the page only for its author, an
\* Editor or an admin, and a finished request for the landing page has listed
\* APPROVED articles only.
C26_PagesFollowViewPolicy ==
    \A s \in Slots :
        (pc[s] = "idle"
         /\ req[s].op \in {"ArticleDetailView", "DashboardView", "LandingView"})
        => LET u == req[s].actor
           IN \A a \in resp[s].listed :
                 \/ rows[a].status = APPROVED
                 \/ /\ req[s].op # "LandingView"
                    /\ u \in Users
                    /\ \/ rows[a].author = u
                       \/ is_editor(u)
                       \/ IsAdmin(u)

\* The three approve entry points: REST action, web view, admin bulk action.
ApproveOps == {"approve", "approve_article", "approve_articles"}

\* C27: with the requests served one after the other and the authors holding
\* the JOURNALIST role, the three approve entry points act alike on a stored
\* article.  A permitted approve of an article that is not APPROVED starts a save
\* (for the admin action: every article it takes up is not APPROVED); that save
\* passes validation; its row write leaves the row APPROVED with approved_at
\* set, and its receiver runs exactly one fan-out.  Whatever an entry point does
\* with an article that is APPROVED already writes the same status and
\* approved_at back, or nothing, and runs no fan-out.
C27_ApproveEntryPointsAgree ==
    [][\A s \in Slots :
          /\ (/\ Begins(s)
              /\ req'[s].op \in {"approve", "approve_article"}
              /\ resp'[s].status \notin {"denied", "not_found", "login_required"})
             => /\ rows[req'[s].pk].status # APPROVED => pc'[s] = "clean"
                /\ pc'[s] = "idle" => UNCHANGED <<live, rows, fanouts>>
          /\ (pc[s] = "admin_next" /\ pc'[s] # "admin_next")
             => Head(req[s].todo).status # APPROVED /\ pc'[s] = "clean"
          /\ (req[s].op \in ApproveOps /\ pc[s] = "clean" /\ pc'[s] # "clean")
             => pc'[s] = "write"
          /\ (req[s].op \in ApproveOps /\ pc[s] = "write" /\ pc'[s] # "write")
             => LET a == inst[s].pk
                IN /\ pc'[s] = "post"
                   /\ rows'[a].status = APPROVED
                   /\ rows'[a].approved_at # None
                   /\ req[s].just_approved <=> rows[a].status # APPROVED
                   /\ rows[a].status = APPROVED
                         => rows'[a].approved_at = rows[a].approved_at
          /\ (req[s].op \in ApproveOps /\ pc[s] = "post" /\ pc'[s] # "post")
             => LET a == inst[s].pk
                IN /\ fanouts'[a] =
                         fanouts[a] + (IF req[s].just_approved THEN 1 ELSE 0)
                   /\ \A b \in Stored \ {a} : fanouts'[b] = fanouts[b]
                   /\ UNCHANGED <<live, rows>>]_vars

\* C27 witness: the web approve of an article that was APPROVED already is
\* over: it wrote the same row back and dispatched nothing, and the article
\* has had the one fan-out of its first approval.
C27_Witness ==
    /\ pc[1] = "idle"
    /\ req[1].op = "approve_article"
    /\ resp[1].status = "redirect"
    /\ ~req[1].changed
    /\ ~req[1].notified
    /\ rows[req[1].pk].status = APPROVED
    /\ rows[req[1].pk].approved_at # None
    /\ fanouts[req[1].pk] = 1
    /\ transitions[req[1].pk] = 1

\* C28: the row write of a REST update never takes an article whose approval
\* has completed (the stored row is APPROVED and no approve of it is still
\* before its receiver) back to another status, and never changes its
\* approved_at.
C28_NoLostApproval ==
    [][\A s \in Slots :
          (/\ req[s].op = "perform_update"
           /\ pc[s] = "write" /\ pc'[s] # "write"
           /\ inst[s].pk \in live
           /\ rows[inst[s].pk].status = APPROVED
           /\ \A o \in Slots \ {s} :
                 pc[o] = "idle" \/ inst[o].pk # inst[s].pk)
          => /\ rows'[inst[s].pk].status = APPROVED
             /\ rows'[inst[s].pk].approved_at = rows[inst[s].pk].approved_at]_vars

\* The operations that create or edit an article through the REST API or the
\* web forms.
EditOps == {"perform_create", "perform_update", "ArticleCreateView",
            "ArticleUpdateView"}

\* C29: with the requests served one after the other, no step of a REST or web
\* create or update changes the status, the author or the approved_at of an
\* article that is in the store, and none runs a fan-out for such an article;
\* a step that changes a stored article's status belongs to an approve; and an
\* APPROVED article that stays in the store stays APPROVED with the same
\* approved_at.
C29_StatusMonotonic ==
    [][\A s \in Slots : \A a \in live :
          /\ (pc[s] # "idle" /\ req[s].op \in EditOps)
             => /\ a \in live'
                /\ rows'[a].status = rows[a].status
                /\ rows'[a].author = rows[a].author
                /\ rows'[a].approved_at = rows[a].approved_at
                /\ fanouts'[a] = fanouts[a]
          /\ (a \in live' /\ rows'[a].status # rows[a].status
                /\ pc[s] # pc'[s])
             => req[s].op \in ApproveOps /\ pc[s] = "write"
          /\ (a \in live' /\ rows[a].status = APPROVED)
             => /\ rows'[a].status = APPROVED
                /\ rows'[a].approved_at = rows[a].approved_at]_vars

\* C29 witness: jo's REST update of an APPROVED article is over: the publisher
\* was changed, the article is still APPROVED with its approved_at, nothing
\* was dispatched, and the article has had the one fan-out of its approval.
C29_Witness ==
    /\ pc[1] = "idle"
    /\ req[1].op = "perform_update"
    /\ resp[1].status = "updated"
    /\ req[1].changed
    /\ ~req[1].notified
    /\ rows[req[1].pk].status = APPROVED
    /\ rows[req[1].pk].approved_at # None
    /\ fanouts[req[1].pk] = 1

\* C30: the save of a new instance (no primary key) with status APPROVED fills
\* a missing approved_at with the current time and keeps a given one, is
\* flagged as a transition, inserts the row as APPROVED with that approved_at
\* and runs one fan-out; the creation of an article of another status runs
\* none; a later save of the created instance runs none and leaves the row as
\* it was; no article has more than one fan-out.
C30_CreateApprovedFansOutOnce ==
    [][\A s \in Slots :
          /\ (/\ req[s].op = "objects_create" /\ inst[s].status = APPROVED
              /\ pc[s] = "clean" /\ pc'[s] # "clean")
             => /\ pc'[s] = "write"
                /\ req'[s].just_approved
                /\ inst'[s].approved_at =
                      (IF inst[s].approved_at = None THEN clock
                       ELSE inst[s].approved_at)
                /\ inst'[s].approved_at # None
          /\ (req[s].op = "objects_create" /\ pc[s] = "write" /\ pc'[s] # "write")
             => /\ live' = live \cup {nextPk}
                /\ rows'[nextPk] = Fields(inst[s])
                /\ inst[s].status = APPROVED => rows'[nextPk].approved_at # None
          /\ (req[s].op = "objects_create" /\ pc[s] = "post" /\ pc'[s] # "post")
             => fanouts'[inst[s].pk] =
                   (IF inst[s].status = APPROVED THEN 1 ELSE 0)
          /\ (req[s].op = "instance_save" /\ pc[s] # "idle")
             => UNCHANGED <<live, rows, fanouts>>
          /\ \A a \in Stored : fanouts'[a] <= 1]_vars

\* C30 witness: an article created as APPROVED has had its one fan-out, and
\* the save of the created instance once more is over:
\* nothing was dispatched and the row is as the create wrote it.
C30_Witness ==
    /\ pc[1] = "idle"
    /\ req[1].op = "instance_save"
    /\ resp[1].status = "saved"
    /\ ~req[1].changed
    /\ ~req[1].notified
    /\ rows[req[1].pk].status = APPROVED
    /\ rows[req[1].pk].approved_at # None
    /\ fanouts[req[1].pk] = 1
    /\ transitions[req[1].pk] = 1

====
